---------------------------- MODULE Spec2Model ----------------------------
(***************************************************************************)
(* Smart Panel UI (src/First.py, the Tkinter desktop variant).             *)
(*                                                                         *)
(* The model follows SmartPanelApp: the UI state, the attributes that the  *)
(* paint pass stores for click detection, and the callbacks that the Tk    *)
(* event loop runs one at a time: _update_video (the 33 ms tick, which     *)
(* repaints the overlay), show_page, _on_canvas_click, _on_canvas_drag,    *)
(* and the two environment steps that have no handler: the window being    *)
(* resized and pointer button 1 being released.                            *)
(***************************************************************************)
EXTENDS Integers, Sequences, FiniteSets, TLC

\* ------------------------------------------------------------------------
\* Program constants
\* ------------------------------------------------------------------------
HoursPerDay == 24
MinutesPerHour == 60
ValueMax == 100
InitialValue == 50
MinCanvas == 100
UnmappedSize == 1
ThumbHeight == 50
LeftScrollX == 40
RightScrollInset == 40
ScrollTolerance == 20
ButtonW == 140
ButtonH == 50
SpinboxW == 320
SpinboxH == 180
SpinboxSpacing == 100
SpinboxTopOffset == 90
AlarmPad == 80
DoneXShift == 20
DoneYOffset == 80
PaintedColumnW == 60
HitColumnW == 50

\* app.py
WebInitialValue == 50
WebInitialTemperature == 20
TemperatureSpan == 80
SecondsPerMinute == 60
NumConfigs == 4

\* ------------------------------------------------------------------------
\* Bounds of the model
\* ------------------------------------------------------------------------
\* Widths and heights of the video frame the window can be given.  The
\* small height is one at which the Done button overlaps a spinbox column.
WideW == 1024
TallH == 470
ShortH == 300

\* The runs of _update_video are counted modulo this.
FrameModulus == 2

Pages == {"camera", "alarm", "video"}

\* An attribute the object does not have yet (hasattr(...) is False).
Unset == <<>>

\* alarm_set_time = None
None == <<"None">>

VARIABLES
    current_page,        \* self.current_page
    alarm_left_value,    \* self.alarm_left_value (hours)
    alarm_right_value,   \* self.alarm_right_value (minutes)
    alarm_set_time,      \* self.alarm_set_time: None or the text "HH:MM"
    brightness_value,    \* self.brightness_value
    volume_value,        \* self.volume_value
    is_recording,        \* self.is_recording
    camera_available,    \* self.camera_available
    cap,                 \* self.cap: "None" or "open"
    shown,               \* the image self.video_label shows
    video_timer,         \* the after(33, self._update_video) callback
    frames,              \* the runs of _update_video so far, modulo
                         \* FrameModulus
    win,                 \* <<winfo_width(), winfo_height()>> of video_frame
    canvas,              \* <<self.canvas_w, self.canvas_h>>
    overlay_page,        \* the page whose overlay items are on overlay_canvas
    camera_button_bounds,\* self.camera_button_bounds or Unset
    alarm_done_button,   \* self.alarm_done_button or Unset
    spinbox_left,        \* self.spinbox_left or Unset
    spinbox_right,       \* self.spinbox_right or Unset
    left_scroll,         \* <<left_scroll_x, _top, _bottom, _height>>
    right_scroll,        \* <<right_scroll_x, _top, _bottom, _height>>
    button1,             \* pointer button 1: "up", "down", "down_switched"
    rec_hist,            \* is_recording before each of the last presses of
                         \* the camera button that only ticks separate
    last,                \* the callback that ran last, the branches it took
                         \* (for a tick: what the read and the display step
                         \* did) and the pointer position it was given
    state,               \* app.py: the state map
    camera,              \* app.py: camera, "None" or the capture kept
    camera_lock,         \* app.py: camera_lock, "free" or its holder
    pc,                  \* app.py: where each thread is
    new_flag,            \* toggle_recording: not state['is_recording'],
                         \* evaluated and not stored yet
    cam_index,           \* init_camera: the position in camera_configs
    opened,              \* the threads whose cap is open and not released
    reading,             \* the threads inside a read() of the device
    kept,                \* the captures assigned to camera so far
    completed,           \* whether the toggles completed so far are odd
    reply                \* the last reply of each route or thread

desktop_vars == <<current_page, alarm_left_value, alarm_right_value,
          alarm_set_time,
          brightness_value, volume_value, is_recording, camera_available,
          cap, shown, video_timer, frames, win, canvas, overlay_page, camera_button_bounds,
          alarm_done_button, spinbox_left, spinbox_right, left_scroll,
          right_scroll, button1, rec_hist, last>>

\* The variables of app.py.
web_vars == <<state, camera, camera_lock, pc, new_flag, cam_index, opened,
              reading, kept, completed, reply>>

vars == <<desktop_vars, web_vars>>

\* The fields of the UI state that pointer events may change.
ui_state == <<is_recording, alarm_set_time, alarm_left_value,
              alarm_right_value, brightness_value, volume_value>>

\* What the paint pass stores for click detection.
geometry == <<canvas, overlay_page, camera_button_bounds, alarm_done_button,
              spinbox_left, spinbox_right, left_scroll, right_scroll>>

camera_state == <<camera_available, cap, shown, video_timer, frames>>

\* ------------------------------------------------------------------------
\* Helpers
\* ------------------------------------------------------------------------
Max(a, b) == IF a >= b THEN a ELSE b
Min(a, b) == IF a <= b THEN a ELSE b
Abs(a) == IF a >= 0 THEN a ELSE -a

\* x1 <= x <= x2 and y1 <= y <= y2
InRect(x, y, r) == r[1] <= x /\ x <= r[3] /\ r[2] <= y /\ y <= r[4]


\* ------------------------------------------------------------------------
\* Text: f"{value:02d}" and the alarm time
\* ------------------------------------------------------------------------
DigitChars == <<"0", "1", "2", "3", "4", "5", "6", "7", "8", "9">>

\* The decimal digits of n >= 0, most significant first.
RECURSIVE Decimal(_)
Decimal(n) ==
    IF n < 10 THEN <<DigitChars[n + 1]>>
    ELSE Append(Decimal(n \div 10), DigitChars[(n % 10) + 1])

\* f"{v}": no padding.
FormatUnpadded(v) == Decimal(v)

\* f"{v:02d}" for v >= 0: zero-padded to a width of at least two.
Format02d(v) ==
    IF Len(Decimal(v)) < 2 THEN <<"0">> \o Decimal(v) ELSE Decimal(v)

\* f"{self.alarm_left_value:02d}:{self.alarm_right_value:02d}"
FormatAlarm(hour, minute) == Format02d(hour) \o <<":">> \o Format02d(minute)

\* ------------------------------------------------------------------------
\* Geometry builder: what each _draw_* method stores for a w x h canvas
\* ------------------------------------------------------------------------
\* int(h*0.25) and int(h*0.90).  For every integer h the binary product
\* truncates to the same integer as the exact one.
ScrollTop(h) == h \div 4
ScrollBottom(h) == (h * 9) \div 10

\* <<x, top, bottom, height>> of the brightness track
LeftScroll(w, h) ==
    <<LeftScrollX, ScrollTop(h), ScrollBottom(h),
      ScrollBottom(h) - ScrollTop(h)>>

\* <<x, top, bottom, height>> of the volume track
RightScroll(w, h) ==
    <<w - RightScrollInset, ScrollTop(h), ScrollBottom(h),
      ScrollBottom(h) - ScrollTop(h)>>

\* self.camera_button_bounds
CameraButtonBounds(w, h) ==
    LET btn_x == (w \div 2) - (ButtonW \div 2)
        btn_y == (h * 88) \div 100
    IN  <<btn_x, btn_y, btn_x + ButtonW, btn_y + ButtonH>>

PanelTop(h) == h \div 4
PanelBottom(h) == PanelTop(h) + ((h * 55) \div 100)

\* self.spinbox_left
SpinboxLeft(w, h) ==
    LET left_x1 == (w \div 2) - SpinboxW - (SpinboxSpacing \div 2)
        left_y1 == PanelTop(h) + SpinboxTopOffset
    IN  <<left_x1, left_y1, left_x1 + SpinboxW, left_y1 + SpinboxH>>

\* self.spinbox_right
SpinboxRight(w, h) ==
    LET right_x1 == (w \div 2) + (SpinboxSpacing \div 2)
        right_y1 == PanelTop(h) + SpinboxTopOffset
    IN  <<right_x1, right_y1, right_x1 + SpinboxW, right_y1 + SpinboxH>>

\* self.alarm_done_button
AlarmDoneButton(w, h) ==
    LET btn_x == w - AlarmPad - ButtonW + DoneXShift
        btn_y == PanelBottom(h) + DoneYOffset
    IN  <<btn_x, btn_y, btn_x + ButtonW, btn_y + ButtonH>>

\* The error of the double 1 - v/100 against (100 - v)/100, in units of
\* 2^-53 / 100 (positive: the double is the smaller one), for v = 0..100.
OneMinusError ==
    <<0, 8, 16, 24, 32, 40, 48, 56, -36, -28, -20, -12, -4, 4, 12, 20, 28,
      36, -56, -48, -40, -32, -24, -16, -8, 0, 8, 16, 24, 32, 40, 48, 56,
      64, 72, -20, -12, -4, 4, 12, 20, -72, -64, -56, -48, -40, -32, -24,
      -16, -8, 0, 8, 16, 24, 32, 40, 48, -44, -36, -28, -20, -12, -4, 4,
      12, 20, 28, 36, 44, -48, -40, -32, -24, -16, -8, 0, 8, 16, 24, 32,
      40, 48, -44, -36, -28, -20, -12, -4, 4, 12, 20, 28, 36, 44, -48, -40,
      -32, -24, -16, -8, 0>>

\* The smallest power of two that is at least n.
RECURSIVE Pow2AtLeast(_)
Pow2AtLeast(n) == IF n <= 1 THEN 1 ELSE 2 * Pow2AtLeast((n + 1) \div 2)

\* int((scroll_height - thumb_height) * (1 - value/100)) in doubles.  The
\* product is truncated; where the exact product is a whole number n the
\* double falls below n when the error of 1 - value/100, scaled by the
\* first factor, exceeds half the spacing of the doubles below n.
ThumbOffset(scroll_height, value) ==
    LET m == scroll_height - ThumbHeight
        num == m * (ValueMax - value)
        n == num \div 100
    IN  IF num % 100 = 0 /\ n > 0
           /\ 2 * m * OneMinusError[value + 1] > 100 * Pow2AtLeast(n)
        THEN n - 1
        ELSE n

\* thumb_pos of _draw_scrollbars
ThumbPos(scroll, value) == scroll[2] + ThumbOffset(scroll[4], value)


\* ------------------------------------------------------------------------
\* _on_canvas_click
\* ------------------------------------------------------------------------
\* x of the left edge of the column the handler tests: btn_x1 = x2 - 50
HitColumnX1(box) == box[3] - HitColumnW

\* btn_height = (y2 - y1) // 2
HitButtonHeight(box) == (box[4] - box[2]) \div 2

\* btn_x1 <= x <= x2 and y1 <= y <= y1 + btn_height
InUpZone(x, y, box) ==
    /\ HitColumnX1(box) <= x /\ x <= box[3]
    /\ box[2] <= y /\ y <= box[2] + HitButtonHeight(box)

\* btn_x1 <= x <= x2 and y1 + btn_height <= y <= y2
InDownZone(x, y, box) ==
    /\ HitColumnX1(box) <= x /\ x <= box[3]
    /\ box[2] + HitButtonHeight(box) <= y /\ y <= box[4]

\* Every branch of _on_canvas_click whose test succeeds, as if no branch
\* returned.
ClickTakenAll(x, y) ==
    (IF /\ current_page = "camera"
        /\ camera_button_bounds # Unset
        /\ InRect(x, y, camera_button_bounds)
     THEN {"camera_button"} ELSE {})
    \cup
    (IF current_page # "alarm" THEN {}
     ELSE (IF alarm_done_button # Unset /\ InRect(x, y, alarm_done_button)
           THEN {"done_button"} ELSE {})
          \cup
          (IF spinbox_left = Unset THEN {}
           ELSE IF InUpZone(x, y, spinbox_left) THEN {"hour_up"}
           ELSE IF InDownZone(x, y, spinbox_left) THEN {"hour_down"}
           ELSE {})
          \cup
          (IF spinbox_right = Unset THEN {}
           ELSE IF InUpZone(x, y, spinbox_right) THEN {"minute_up"}
           ELSE IF InDownZone(x, y, spinbox_right) THEN {"minute_down"}
           ELSE {}))

\* The branches of _on_canvas_click that run for a press at (x, y): the
\* handler returns from the first branch whose test succeeds.
ClickTaken(x, y) ==
    IF /\ current_page = "camera"
       /\ camera_button_bounds # Unset
       /\ InRect(x, y, camera_button_bounds)
    THEN {"camera_button"}
    ELSE IF current_page # "alarm" THEN {}
    ELSE IF alarm_done_button # Unset /\ InRect(x, y, alarm_done_button)
    THEN {"done_button"}
    ELSE IF spinbox_left # Unset /\ InUpZone(x, y, spinbox_left)
    THEN {"hour_up"}
    ELSE IF spinbox_left # Unset /\ InDownZone(x, y, spinbox_left)
    THEN {"hour_down"}
    ELSE IF spinbox_right # Unset /\ InUpZone(x, y, spinbox_right)
    THEN {"minute_up"}
    ELSE IF spinbox_right # Unset /\ InDownZone(x, y, spinbox_right)
    THEN {"minute_down"}
    ELSE {}

\* A press that can only start the recording.
StartRecording(rec) == TRUE

\* self.is_recording = not self.is_recording
ToggleRecording(rec) == ~rec

\* SpinUp without the wrap-around.
SpinUpNoWrap(value, modulus) == value + 1

\* (value + 1) % modulus
SpinUp(value, modulus) == (value + 1) % modulus

\* (value - 1) % modulus: Python's % takes the sign of the modulus.
SpinDown(value, modulus) == (value - 1) % modulus

\* The value a spinbox holds after the branches in taken have run.
SpinValue(value, modulus, taken, up, down) ==
    LET v1 == IF up \in taken THEN SpinUp(value, modulus) ELSE value
    IN  IF down \in taken THEN SpinDown(v1, modulus) ELSE v1

\* rec_hist after a pointer event: a press of the camera button is added
\* (the last two are kept), any other pointer event starts over.
RecHistAfter(taken) ==
    IF "camera_button" \in taken
    THEN IF Len(rec_hist) < 2
         THEN Append(rec_hist, is_recording)
         ELSE <<rec_hist[2], is_recording>>
    ELSE <<>>

\* <Button-1> at (x, y): a press inside the widget while the button is up.
Click(x, y) ==
    LET taken == ClickTaken(x, y) IN
    /\ button1 = "up"
    /\ 0 <= x /\ x < win[1] /\ 0 <= y /\ y < win[2]
    /\ button1' = "down"
    /\ is_recording' = IF "camera_button" \in taken
                       THEN ToggleRecording(is_recording)
                       ELSE is_recording
    /\ alarm_set_time' = IF "done_button" \in taken
                         THEN FormatAlarm(alarm_left_value, alarm_right_value)
                         ELSE alarm_set_time
    /\ alarm_left_value' = SpinValue(alarm_left_value, HoursPerDay, taken,
                                     "hour_up", "hour_down")
    /\ alarm_right_value' = SpinValue(alarm_right_value, MinutesPerHour,
                                      taken, "minute_up", "minute_down")
    /\ rec_hist' = RecHistAfter(taken)
    /\ last' = [op |-> "click", hit |-> taken, at |-> <<x, y>>]
    /\ UNCHANGED <<current_page, brightness_value, volume_value,
                   camera_state, win, geometry, web_vars>>

\* ------------------------------------------------------------------------
\* _on_canvas_drag
\* ------------------------------------------------------------------------
\* The whole numbers n for which int((1 - (100 - n)/100) * 100) in doubles
\* is n - 1: the double product falls just below n.
TruncatesBelow == {7, 8, 9, 10, 11, 19, 20, 21, 22, 32, 33, 44, 45, 66}

\* int((1 - progress) * 100) with progress = (y - top) / height in doubles.
\* Where the exact value is not a whole number the double truncates to its
\* floor; where it is a whole number n, progress is the double (100 - n)/100
\* whatever the height, and the product truncates to n or to n - 1.
TruncatedPercent(y, top, height) ==
    LET num == (height - (y - top)) * 100
        n == num \div height
    IN  IF num % height = 0 /\ n \in TruncatesBelow THEN n - 1 ELSE n

\* The percentage measured from the top of the canvas, not clamped.
DragValueFromOrigin(y, scroll) == TruncatedPercent(y, 0, scroll[4])

\* max(0, min(100, int((1 - progress) * 100)))
DragValue(y, scroll) ==
    Max(0, Min(ValueMax, TruncatedPercent(y, scroll[2], scroll[4])))

\* The test of the band without its vertical part.
InScrollColumn(x, y, scroll) == Abs(x - scroll[1]) < ScrollTolerance

\* abs(x - scroll_x) < 20 and scroll_top <= y <= scroll_bottom
InScrollBand(x, y, scroll) ==
    /\ Abs(x - scroll[1]) < ScrollTolerance
    /\ scroll[2] <= y /\ y <= scroll[3]

\* The branches of _on_canvas_drag that run for a motion at (x, y).
DragTaken(x, y) ==
    IF left_scroll # Unset /\ InScrollBand(x, y, left_scroll)
    THEN {"left_scroll"}
    ELSE IF right_scroll # Unset /\ InScrollBand(x, y, right_scroll)
    THEN {"right_scroll"}
    ELSE {}

\* <B1-Motion> at (x, y): the pointer moves while button 1 is held; the
\* canvas keeps the pointer, so (x, y) may lie outside the widget.
Drag(x, y) ==
    LET taken == DragTaken(x, y) IN
    /\ button1 # "up"
    /\ brightness_value' = IF "left_scroll" \in taken
                           THEN DragValue(y, left_scroll)
                           ELSE brightness_value
    /\ volume_value' = IF "right_scroll" \in taken
                       THEN DragValue(y, right_scroll)
                       ELSE volume_value
    /\ rec_hist' = <<>>
    /\ last' = [op |-> "drag", hit |-> taken, at |-> <<x, y>>]
    /\ UNCHANGED <<current_page, is_recording, alarm_set_time,
                   alarm_left_value, alarm_right_value, camera_state, win,
                   geometry, button1, web_vars>>

\* Button 1 is released: no handler is bound to it.
Release ==
    /\ button1 # "up"
    /\ button1' = "up"
    /\ UNCHANGED <<current_page, ui_state, camera_state, win, geometry,
                   rec_hist, last, web_vars>>

\* ------------------------------------------------------------------------
\* show_page, the window, _update_video
\* ------------------------------------------------------------------------
\* show_page(page_name): the page changes, the overlay is not repainted.
ShowPage(page_name) ==
    /\ current_page' = page_name
    /\ button1' = IF button1 = "up" THEN "up" ELSE "down_switched"
    /\ rec_hist' = <<>>
    /\ last' = [op |-> "show_page", hit |-> {}, at |-> <<>>]
    /\ UNCHANGED <<ui_state, camera_state, win, geometry, web_vars>>

\* The window is on screen: the video frame has the size the window
\* manager gave it.  Before that nothing can be clicked.
Mapped == win # <<UnmappedSize, UnmappedSize>>

\* The window manager gives the video frame another size.
Resize(size) ==
    /\ size # win
    /\ win' = size
    /\ rec_hist' = <<>>
    /\ last' = [op |-> "resize", hit |-> {}, at |-> <<>>]
    /\ UNCHANGED <<current_page, ui_state, camera_state, geometry, button1,
                   web_vars>>

\* What self.cap.read() and the conversion of the frame can do: a frame,
\* not ok or None, a frame of size 0, an exception from read(), an
\* exception from the conversion.
ReadOutcomes == {"frame", "lost", "empty", "raise", "bad_convert"}

\* The reads after which frame is None.
FailedReads == {"lost", "empty", "raise"}

\* The guard of the read in _update_video.
ReadsCamera == is_recording /\ camera_available /\ cap = "open"

\* A tick that takes every read that is not missing for a frame.
ImageOfAnyRead(outcome) ==
    IF outcome = "no_read" THEN "placeholder" ELSE "camera"

\* img of _update_video: the image it hands to the display step.
ImageShown(outcome) ==
    IF ~ReadsCamera \/ outcome \in FailedReads \/ ~is_recording
    THEN "placeholder"
    ELSE IF outcome = "bad_convert" THEN "placeholder" ELSE "camera"

\* A camera that counts as available again whenever its handle is open.
CameraRetried(outcome) ==
    IF ReadsCamera /\ outcome \in FailedReads THEN FALSE ELSE cap = "open"

\* self.camera_available after the read of a tick.
CameraAvailableAfter(outcome) ==
    IF ReadsCamera /\ outcome \in FailedReads THEN FALSE
    ELSE camera_available

\* What the display step of _update_video can do: complete, raise before
\* the label has the new image (_letterbox, PhotoImage), raise in
\* _draw_overlay.
RenderOutcomes == {"drawn", "raise_image", "raise_overlay"}

\* A timer that is set only inside the try block of the display step.
TimerAfterDrawnTick(render) ==
    IF render = "drawn" THEN "pending" ELSE "none"

\* self.after(33, self._update_video), the last statement of the tick.
TimerAfterTick(render) == "pending"

\* _draw_overlay(w, h) with the page's _draw_*_overlay.
DrawOverlay(w, h) ==
    /\ canvas' = <<w, h>>
    /\ overlay_page' = current_page
    /\ left_scroll' = LeftScroll(w, h)
    /\ right_scroll' = RightScroll(w, h)
    /\ camera_button_bounds' = IF current_page = "camera"
                               THEN CameraButtonBounds(w, h)
                               ELSE camera_button_bounds
    /\ spinbox_left' = IF current_page = "alarm"
                       THEN SpinboxLeft(w, h) ELSE spinbox_left
    /\ spinbox_right' = IF current_page = "alarm"
                        THEN SpinboxRight(w, h) ELSE spinbox_right
    /\ alarm_done_button' = IF current_page = "alarm"
                            THEN AlarmDoneButton(w, h) ELSE alarm_done_button

\* What _draw_overlay stores on a page, in the order it stores it; a
\* canvas call that can raise precedes each store and follows the last.
DrawSteps(page) ==
    <<"canvas", "left_scroll", "right_scroll">>
    \o (CASE page = "camera" -> <<"camera_button_bounds">>
          [] page = "alarm" -> <<"spinboxes", "alarm_done_button">>
          [] page = "video" -> <<>>)

\* _draw_overlay(w, h) that raises after the stores in stored, or at
\* delete("all") when stored is empty.
DrawOverlayUpTo(w, h, stored) ==
    /\ canvas' = IF "canvas" \in stored THEN <<w, h>> ELSE canvas
    /\ overlay_page' = IF "canvas" \in stored THEN current_page
                       ELSE overlay_page
    /\ left_scroll' = IF "left_scroll" \in stored THEN LeftScroll(w, h)
                      ELSE left_scroll
    /\ right_scroll' = IF "right_scroll" \in stored THEN RightScroll(w, h)
                       ELSE right_scroll
    /\ camera_button_bounds' = IF "camera_button_bounds" \in stored
                               THEN CameraButtonBounds(w, h)
                               ELSE camera_button_bounds
    /\ spinbox_left' = IF "spinboxes" \in stored
                       THEN SpinboxLeft(w, h) ELSE spinbox_left
    /\ spinbox_right' = IF "spinboxes" \in stored
                        THEN SpinboxRight(w, h) ELSE spinbox_right
    /\ alarm_done_button' = IF "alarm_done_button" \in stored
                            THEN AlarmDoneButton(w, h)
                            ELSE alarm_done_button

\* The display step of _update_video on a w x h canvas.
Render(render, w, h) ==
    CASE render = "drawn" -> DrawOverlay(w, h)
      [] render = "raise_image" -> UNCHANGED geometry
      [] render = "raise_overlay" ->
           \E k \in 0..Len(DrawSteps(current_page)) :
              DrawOverlayUpTo(w, h,
                  {DrawSteps(current_page)[i] : i \in 1..k})

\* One run of _update_video: the frame, the image, the overlay, the timer.
UpdateVideo(outcome, render) ==
    /\ video_timer = "pending"
    /\ IF ReadsCamera THEN outcome \in ReadOutcomes ELSE outcome = "no_read"
    /\ render \in RenderOutcomes
    /\ camera_available' = CameraAvailableAfter(outcome)
    /\ shown' = IF render = "raise_image" THEN shown
                ELSE ImageShown(outcome)
    /\ Render(render, Max(win[1], MinCanvas), Max(win[2], MinCanvas))
    /\ video_timer' = TimerAfterTick(render)
    /\ frames' = (frames + 1) % FrameModulus
    /\ last' = [op |-> "tick", hit |-> {outcome, render}, at |-> <<>>]
    /\ UNCHANGED <<current_page, ui_state, cap, win, button1, rec_hist,
                   web_vars>>

\* ------------------------------------------------------------------------
\* app.py: the state map and its routes
\* ------------------------------------------------------------------------
\* The threads that serve POST /api/recording/toggle, one request at a
\* time each, and those that run generate_camera_stream.
Togglers == {"t1", "t2"}
Streams == {"g1", "g2"}
Threads == Togglers \cup Streams

\* A route that has not replied yet.  A reply is written with the body of
\* the request it answers.
NoReply == [status |-> 0]

\* The state map after the module is loaded at hour : minute; the
\* temperature is in hundredths of a degree.
StateAtStart(hour, minute) ==
    [current_page |-> "camera", is_recording |-> FALSE,
     brightness |-> WebInitialValue, volume |-> WebInitialValue,
     alarm_hour |-> hour, alarm_minute |-> minute,
     alarm_set_time |-> None, temperature |-> 100 * WebInitialTemperature]

\* app.py after it is loaded: no camera, the lock free, no request.
WebInit(hours, minutes) ==
    /\ \E hour \in hours, minute \in minutes :
          state = StateAtStart(hour, minute)
    /\ camera = "None"
    /\ camera_lock = "free"
    /\ pc = [t \in Threads |-> "idle"]
    /\ new_flag = [t \in Togglers |-> FALSE]
    /\ cam_index = [t \in Togglers |-> 0]
    /\ opened = {}
    /\ reading = {}
    /\ kept = {}
    /\ completed = FALSE
    /\ reply = [r \in Togglers \cup {"update_state", "set_alarm"} |-> NoReply]

camera_vars == <<camera, camera_lock, pc, new_flag, cam_index, opened,
                 reading, kept, completed>>

\* A merge that stores every key of the body.
MergeAll(data) ==
    [key \in DOMAIN state \cup DOMAIN data |->
        IF key \in DOMAIN data THEN data[key] ELSE state[key]]

\* A merge that keeps numbers within 0..100.
MergeClamped(data) ==
    [key \in DOMAIN state |->
        IF key \in DOMAIN data THEN Max(0, Min(ValueMax, data[key]))
        ELSE state[key]]

\* for key in data: if key in state: state[key] = data[key]
Merge(data) ==
    [key \in DOMAIN state |->
        IF key \in DOMAIN data THEN data[key] ELSE state[key]]

\* POST /api/state with a JSON object.
UpdateState(data) ==
    /\ state' = Merge(data)
    /\ reply' = [reply EXCEPT !["update_state"] =
                    [status |-> 200, request |-> data, success |-> TRUE,
                     state |-> state']]
    /\ UNCHANGED <<desktop_vars, camera_vars>>

\* POST /api/state whose request.json is None: the loop raises TypeError.
UpdateStateNoJson ==
    /\ reply' = [reply EXCEPT !["update_state"] = [status |-> 500]]
    /\ UNCHANGED <<desktop_vars, camera_vars, state>>

\* data.get(key, default)
Get(data, key, default) ==
    IF key \in DOMAIN data THEN data[key] ELSE default

\* POST /api/alarm/set with a JSON object.
SetAlarm(data) ==
    LET hour == Get(data, "hour", state.alarm_hour)
        minute == Get(data, "minute", state.alarm_minute)
    IN  /\ state' = [state EXCEPT !.alarm_hour = hour,
                                  !.alarm_minute = minute,
                                  !.alarm_set_time = FormatAlarm(hour, minute)]
        /\ reply' = [reply EXCEPT !["set_alarm"] =
                        [status |-> 200, request |-> data, success |-> TRUE,
                         alarm_time |-> FormatAlarm(hour, minute)]]
        /\ UNCHANGED <<desktop_vars, camera_vars>>

\* update_temperature at a second of the minute:
\* 20.0 + 0.8 * (time.time() % 60) / 60.0, in hundredths, rounded down.
UpdateTemperature(second) ==
    /\ state' = [state EXCEPT !.temperature =
                    100 * WebInitialTemperature
                    + (TemperatureSpan * second) \div SecondsPerMinute]
    /\ UNCHANGED <<desktop_vars, camera_vars, reply>>

\* ------------------------------------------------------------------------
\* app.py: toggle_recording, init_camera, get_camera_frame
\* ------------------------------------------------------------------------
\* Thread t moves on to a statement.
Goto(t, label) == [pc EXCEPT ![t] = label]

\* toggle_recording: not state['is_recording'] is evaluated.
ToggleEvaluate(t) ==
    /\ pc[t] = "idle"
    /\ new_flag' = [new_flag EXCEPT ![t] = ~state.is_recording]
    /\ pc' = Goto(t, "store")
    /\ UNCHANGED <<desktop_vars, state, camera, camera_lock, cam_index,
                   opened, reading, kept, completed, reply>>

\* toggle_recording: state['is_recording'] = the value evaluated.
ToggleStore(t) ==
    /\ pc[t] = "store"
    /\ state' = [state EXCEPT !.is_recording = new_flag[t]]
    /\ pc' = Goto(t, "test")
    /\ UNCHANGED <<desktop_vars, camera, camera_lock, new_flag, cam_index,
                   opened, reading, kept, completed, reply>>

\* toggle_recording: if state['is_recording']: init_camera()
ToggleTest(t) ==
    /\ pc[t] = "test"
    /\ pc' = Goto(t, IF state.is_recording THEN "init" ELSE "reply")
    /\ UNCHANGED <<desktop_vars, state, camera, camera_lock, new_flag,
                   cam_index, opened, reading, kept, completed, reply>>

\* init_camera: if camera is not None: return camera
InitCheck(t) ==
    /\ pc[t] = "init"
    /\ IF camera # "None"
       THEN pc' = Goto(t, "reply") /\ UNCHANGED cam_index
       ELSE /\ pc' = Goto(t, "open")
            /\ cam_index' = [cam_index EXCEPT ![t] = 1]
    /\ UNCHANGED <<desktop_vars, state, camera, camera_lock, new_flag,
                   opened, reading, kept, completed, reply>>

\* init_camera returns: its locals are gone.
Return(t) ==
    /\ cam_index' = [cam_index EXCEPT ![t] = 0]
    /\ pc' = Goto(t, "reply")

\* init_camera: the loop goes to the next of camera_configs, or ends and
\* the function returns None.
NextConfig(t) ==
    IF cam_index[t] < NumConfigs
    THEN /\ cam_index' = [cam_index EXCEPT ![t] = cam_index[t] + 1]
         /\ pc' = Goto(t, "open")
    ELSE Return(t)

\* What cv2.VideoCapture(cam_index, backend) and cap.isOpened() can do.
OpenOutcomes == {"raise", "closed", "opened"}

\* init_camera: cap = cv2.VideoCapture(...); if cap.isOpened(): ...
InitOpen(t, outcome) ==
    /\ pc[t] = "open"
    /\ outcome \in OpenOutcomes
    /\ IF outcome = "opened"
       THEN /\ opened' = opened \cup {t}
            /\ pc' = Goto(t, "test_read")
            /\ UNCHANGED cam_index
       ELSE /\ UNCHANGED opened
            /\ NextConfig(t)
    /\ UNCHANGED <<desktop_vars, state, camera, camera_lock, new_flag,
                   reading, kept, completed, reply>>

\* init_camera: cap.read() starts.
InitReadBegin(t) ==
    /\ pc[t] = "test_read"
    /\ reading' = reading \cup {t}
    /\ pc' = Goto(t, "in_read")
    /\ UNCHANGED <<desktop_vars, state, camera, camera_lock, new_flag,
                   cam_index, opened, kept, completed, reply>>

\* What a read() of the device can do.
DeviceReads == {"frame", "no_frame", "raise"}

\* init_camera: cap.read() ends; a frame makes cap the camera, no frame
\* releases cap, an exception leaves cap as it is.
InitReadEnd(t, outcome) ==
    /\ pc[t] = "in_read"
    /\ outcome \in DeviceReads
    /\ reading' = reading \ {t}
    /\ CASE outcome = "frame" ->
              /\ camera' = t
              /\ kept' = kept \cup {t}
              /\ Return(t)
              /\ UNCHANGED opened
         [] outcome = "no_frame" ->
              /\ opened' = opened \ {t}
              /\ NextConfig(t)
              /\ UNCHANGED <<camera, kept>>
         [] outcome = "raise" ->
              /\ NextConfig(t)
              /\ UNCHANGED <<camera, kept, opened>>
    /\ UNCHANGED <<desktop_vars, state, camera_lock, new_flag, completed,
                   reply>>

\* toggle_recording: return jsonify({..., 'is_recording':
\* state['is_recording']}); is_recording is state as it is read now, and
\* stored keeps next to it the value this request wrote at line 122.
ToggleReply(t) ==
    /\ pc[t] = "reply"
    /\ reply' = [reply EXCEPT ![t] =
                    [status |-> 200, success |-> TRUE,
                     is_recording |-> state.is_recording,
                     stored |-> new_flag[t]]]
    /\ completed' = ~completed
    /\ new_flag' = [new_flag EXCEPT ![t] = FALSE]
    /\ pc' = Goto(t, "idle")
    /\ UNCHANGED <<desktop_vars, state, camera, camera_lock, cam_index,
                   opened, reading, kept>>

\* get_camera_frame: with camera_lock, entered when the lock is free.
StreamAcquire(g) ==
    /\ pc[g] = "idle"
    /\ camera_lock = "free"
    /\ camera_lock' = g
    /\ pc' = Goto(g, "locked")
    /\ UNCHANGED <<desktop_vars, state, camera, new_flag, cam_index, opened,
                   reading, kept, completed, reply>>

\* get_camera_frame: if camera is None or not state['is_recording']:
\* return None; otherwise camera.read() starts.
StreamTest(g) ==
    /\ pc[g] = "locked"
    /\ IF camera = "None" \/ ~state.is_recording
       THEN /\ camera_lock' = "free"
            /\ pc' = Goto(g, "idle")
            /\ UNCHANGED reading
       ELSE /\ reading' = reading \cup {g}
            /\ pc' = Goto(g, "in_read")
            /\ UNCHANGED camera_lock
    /\ UNCHANGED <<desktop_vars, state, camera, new_flag, cam_index, opened,
                   kept, completed, reply>>

\* get_camera_frame: camera.read() ends and the lock is released; an
\* exception ends the generator.
StreamReadEnd(g, outcome) ==
    /\ pc[g] = "in_read"
    /\ outcome \in DeviceReads
    /\ reading' = reading \ {g}
    /\ camera_lock' = "free"
    /\ pc' = Goto(g, IF outcome = "raise" THEN "ended" ELSE "idle")
    /\ UNCHANGED <<desktop_vars, state, camera, new_flag, cam_index, opened,
                   kept, completed, reply>>

\* The clock reading at start-up: 23:59, one press from the wrap-arounds.
ClockHour == HoursPerDay - 1
ClockMinute == MinutesPerHour - 1

\* ------------------------------------------------------------------------
\* The state after SmartPanelApp.__init__
\* ------------------------------------------------------------------------
\* The clock gives the spinbox values, the probing of the cameras gives
\* camera_available, and the first _update_video, run before the window is
\* mapped (winfo_width() and winfo_height() are 1), paints the camera page
\* on a 100 x 100 canvas.
InitFrom(hours, minutes, cameras) ==
    /\ current_page = "camera"
    /\ alarm_left_value \in hours
    /\ alarm_right_value \in minutes
    /\ alarm_set_time = None
    /\ brightness_value = InitialValue
    /\ volume_value = InitialValue
    /\ is_recording = FALSE
    /\ camera_available \in cameras
    /\ cap = IF camera_available THEN "open" ELSE "None"
    /\ shown = "placeholder"
    /\ video_timer = "pending"
    /\ frames = 1 % FrameModulus
    /\ win = <<UnmappedSize, UnmappedSize>>
    /\ canvas = <<MinCanvas, MinCanvas>>
    /\ overlay_page = "camera"
    /\ camera_button_bounds = CameraButtonBounds(MinCanvas, MinCanvas)
    /\ alarm_done_button = Unset
    /\ spinbox_left = Unset
    /\ spinbox_right = Unset
    /\ left_scroll = LeftScroll(MinCanvas, MinCanvas)
    /\ right_scroll = RightScroll(MinCanvas, MinCanvas)
    /\ button1 = "up"
    /\ rec_hist = <<>>
    /\ last = [op |-> "init", hit |-> {}, at |-> <<>>]
    /\ WebInit({ClockHour}, {ClockMinute})


\* ------------------------------------------------------------------------
\* The inputs the specifications draw from
\* ------------------------------------------------------------------------
TallSize == <<WideW, TallH>>
ShortSize == <<WideW, ShortH>>

\* The middle of a rectangle.
Centre(r) == <<(r[1] + r[3]) \div 2, (r[2] + r[4]) \div 2>>

\* The middle of the top edge of a rectangle.
TopMiddle(r) == <<(r[1] + r[3]) \div 2, r[2]>>

\* The rectangle the handler tests for the up half of a spinbox column.
UpZone(box) ==
    <<HitColumnX1(box), box[2], box[3], box[2] + HitButtonHeight(box)>>

\* The rectangle the handler tests for the down half of a spinbox column.
DownZone(box) ==
    <<HitColumnX1(box), box[2] + HitButtonHeight(box), box[3], box[4]>>

\* The band around a track in which a drag is taken.
ScrollBand(scroll) ==
    <<scroll[1] - ScrollTolerance + 1, scroll[2],
      scroll[1] + ScrollTolerance - 1, scroll[3]>>

\* ------------------------------------------------------------------------
\* SpecSpin: the spinboxes of the alarm page, from every clock reading
\* ------------------------------------------------------------------------
\* Presses in the four zones of the two columns as painted for the tall
\* window, on the line the two halves share, and in the display zone.
SpinPoints ==
    LET l == SpinboxLeft(WideW, TallH)
        r == SpinboxRight(WideW, TallH)
    IN  {Centre(UpZone(l)), Centre(DownZone(l)),
         Centre(UpZone(r)), Centre(DownZone(r)),
         <<l[3], l[2] + HitButtonHeight(l)>>,
         <<r[1], r[2]>>}

InitSpin == InitFrom(0..(HoursPerDay - 1), 0..(MinutesPerHour - 1), {FALSE})

NextSpin ==
    \/ Mapped /\ ShowPage("alarm")
    \/ Resize(TallSize)
    \/ UpdateVideo("no_read", "drawn")
    \/ \E p \in SpinPoints : Click(p[1], p[2])
    \/ Release

SpecSpin == InitSpin /\ [][NextSpin]_vars


\* A step that is a press: only _on_canvas_click takes button 1 from up to
\* down.
IsPress == button1 = "up" /\ button1' = "down"

SpinInRange ==
    /\ alarm_left_value \in 0..(HoursPerDay - 1)
    /\ alarm_right_value \in 0..(MinutesPerHour - 1)

\* C1: from every hour in 0..23 and minute in 0..59, every press on the
\* spinbox zones leaves the hour in 0..23 and the minute in 0..59; an up
\* press at 23 (at 59) gives 0 and a down press at 0 gives 23 (59).
C1_SpinClosed ==
    /\ SpinInRange
    /\ [][/\ SpinInRange'
          /\ (IsPress /\ "hour_up" \in last'.hit /\ alarm_left_value = 23)
                => alarm_left_value' = 0
          /\ (IsPress /\ "hour_down" \in last'.hit /\ alarm_left_value = 0)
                => alarm_left_value' = 23
          /\ (IsPress /\ "minute_up" \in last'.hit /\ alarm_right_value = 59)
                => alarm_right_value' = 0
          /\ (IsPress /\ "minute_down" \in last'.hit /\ alarm_right_value = 0)
                => alarm_right_value' = 59]_vars

\* An up press on the hour column has just taken the hour from 23 to 0,
\* with the minute at 59.
C1_Witness ==
    /\ last.op = "click"
    /\ last.hit = {"hour_up"}
    /\ button1 = "down"
    /\ alarm_left_value = 0
    /\ alarm_right_value = 59


\* ------------------------------------------------------------------------
\* Spec: the dispatcher with page switches, resizes and ticks
\* ------------------------------------------------------------------------
\* The spinbox values the exploration follows: those at most SpinSpan
\* presses away from the clock reading.
SpinSpan == 1

Near(value, start, modulus) ==
    \E d \in -SpinSpan..SpinSpan : value = (start + d) % modulus

SpinsNearClock ==
    /\ Near(alarm_left_value', ClockHour, HoursPerDay)
    /\ Near(alarm_right_value', ClockMinute, MinutesPerHour)

\* The sizes the window manager gives the video frame once it is mapped.
WinSizes == {TallSize}

\* The canvas sizes _update_video paints with.
PaintSizes == {<<MinCanvas, MinCanvas>>} \cup WinSizes

\* Presses: the middle of the camera button, of the top edge of the Done
\* button (the rest of it is below a canvas of these heights) and of the
\* hour column's up half for every paint size, the bottom right corner of
\* the minute column, the top of the brightness track and a point of the
\* display zone.
PressPoints ==
    UNION {LET w == s[1]
               h == s[2]
           IN  {Centre(CameraButtonBounds(w, h)),
                TopMiddle(AlarmDoneButton(w, h)),
                Centre(UpZone(SpinboxLeft(w, h))),
                <<SpinboxRight(w, h)[3], SpinboxRight(w, h)[4]>>,
                <<LeftScrollX, ScrollTop(h)>>,
                <<SpinboxRight(w, h)[1], SpinboxRight(w, h)[2]>>}
           : s \in PaintSizes}

\* Drags: the top of the brightness track and the bottom of the volume
\* track, the edge of the tolerance (inside it, where the two bands of the
\* narrowest canvas overlap, and outside it), above and below the band.
DragPoints ==
    UNION {LET l == LeftScroll(s[1], s[2])
               r == RightScroll(s[1], s[2])
           IN  {<<l[1], l[2]>>, <<r[1], r[3]>>,
                <<l[1] + ScrollTolerance - 1, l[2]>>,
                <<l[1] + ScrollTolerance, l[2] - 1>>,
                <<r[1], r[3] + 1>>}
           : s \in PaintSizes}

Init == InitFrom({ClockHour}, {ClockMinute}, {FALSE})

Next ==
    \/ \E page_name \in Pages : Mapped /\ ShowPage(page_name)
    \/ \E size \in WinSizes : Resize(size)
    \/ UpdateVideo("no_read", "drawn")
    \/ \E p \in PressPoints : Click(p[1], p[2]) /\ SpinsNearClock
    \/ \E p \in DragPoints : Drag(p[1], p[2])
    \/ Release

Spec == Init /\ [][Next]_vars


\* ------------------------------------------------------------------------
\* SpecDone: the Done button of the alarm page, from every clock reading
\* ------------------------------------------------------------------------
\* Presses in the middle of the top edge of the Done button as painted for
\* the tall window (the rest of the button is below the canvas) and just
\* above it.
DonePoints ==
    LET d == AlarmDoneButton(WideW, TallH)
    IN  {TopMiddle(d), <<d[1], d[2] - 1>>}

InitDone == InitFrom(0..(HoursPerDay - 1), 0..(MinutesPerHour - 1), {FALSE})

NextDone ==
    \/ \E page_name \in {"alarm", "video"} : Mapped /\ ShowPage(page_name)
    \/ Resize(TallSize)
    \/ UpdateVideo("no_read", "drawn")
    \/ \E p \in DonePoints : Click(p[1], p[2])
    \/ Release

SpecDone == InitDone /\ [][NextDone]_vars

\* The text "HH:MM" of an hour and a minute below 100: two digits each.
TwoDigitTime(hour, minute) ==
    <<DigitChars[(hour \div 10) + 1], DigitChars[(hour % 10) + 1], ":",
      DigitChars[(minute \div 10) + 1], DigitChars[(minute % 10) + 1]>>

\* C5: a press inside done_button on the alarm page sets alarm_set_time to
\* the zero-padded text "HH:MM" of the current hour and minute (7 and 5
\* give "07:05") and leaves the hour and the minute as they are.
C5_DoneSetsTime ==
    [][(IsPress /\ "done_button" \in last'.hit) =>
          /\ alarm_set_time' = TwoDigitTime(alarm_left_value,
                                            alarm_right_value)
          /\ Len(alarm_set_time') = 5
          /\ (alarm_left_value = 7 /\ alarm_right_value = 5
                => alarm_set_time' = <<"0", "7", ":", "0", "5">>)
          /\ alarm_left_value' = alarm_left_value
          /\ alarm_right_value' = alarm_right_value]_vars

\* Done has just been pressed at 07:05.
C5_Witness ==
    /\ last.op = "click"
    /\ last.hit = {"done_button"}
    /\ button1 = "down"
    /\ current_page = "alarm"
    /\ alarm_left_value = 7
    /\ alarm_right_value = 5
    /\ alarm_set_time = <<"0", "7", ":", "0", "5">>

\* ------------------------------------------------------------------------
\* SpecToggle: the camera button and the video tick, with and without a
\* camera
\* ------------------------------------------------------------------------
\* Presses in the middle of the camera button as painted before and after
\* the window is mapped, and near the top left corner.
TogglePoints ==
    {Centre(CameraButtonBounds(MinCanvas, MinCanvas)),
     Centre(CameraButtonBounds(WideW, TallH)),
     <<1, 1>>}

InitToggle == InitFrom({ClockHour}, {ClockMinute}, BOOLEAN)

NextToggle ==
    \/ \E page_name \in Pages : Mapped /\ ShowPage(page_name)
    \/ Resize(TallSize)
    \/ \E outcome \in ReadOutcomes \cup {"no_read"} :
          UpdateVideo(outcome, "drawn")
    \/ \E p \in TogglePoints : Click(p[1], p[2])
    \/ Release

SpecToggle == InitToggle /\ [][NextToggle]_vars

\* C6: after two presses inside camera_button that only video ticks (and
\* the release of the button) separate, is_recording has the value it had
\* before the first of them, and a tick that runs after them shows the
\* placeholder if it was not recording and a camera frame or the
\* placeholder if it was.
C6_ToggleTwice ==
    Len(rec_hist) = 2 =>
        /\ is_recording = rec_hist[1]
        /\ last.op = "tick" =>
              IF rec_hist[1]
              THEN shown \in {"camera", "placeholder"}
              ELSE shown = "placeholder"

\* With a camera present, recording was off, went on and is off again, and
\* the tick after the second press shows the placeholder.
C6_Witness ==
    /\ rec_hist = <<FALSE, TRUE>>
    /\ last.op = "tick"
    /\ camera_available
    /\ ~is_recording
    /\ shown = "placeholder"


\* ------------------------------------------------------------------------
\* SpecScroll: drags along the brightness track
\* ------------------------------------------------------------------------
\* Pointer heights: every one from just above to just below the band of
\* the start-up canvas, and those around the two ends of the band of the
\* tall canvas.
ScrollYs ==
    ((ScrollTop(MinCanvas) - 1)..(ScrollBottom(MinCanvas) + 1))
    \cup ((ScrollTop(TallH) - 1)..(ScrollTop(TallH) + 1))
    \cup ((ScrollBottom(TallH) - 1)..(ScrollBottom(TallH) + 1))

InitScroll == InitFrom({ClockHour}, {ClockMinute}, {FALSE})

NextScroll ==
    \/ Resize(TallSize)
    \/ UpdateVideo("no_read", "drawn")
    \/ Click(LeftScrollX, ScrollTop(MinCanvas))
    \/ \E y \in ScrollYs : Drag(LeftScrollX, y)
    \/ Release

SpecScroll == InitScroll /\ [][NextScroll]_vars

\* C2: a drag on a track at the height _draw_scrollbars gives the thumb for
\* the current value sets the value back to itself, within 1.
C2_RoundTrip ==
    [][/\ Drag(left_scroll[1], ThumbPos(left_scroll, brightness_value))
            => Abs(brightness_value' - brightness_value) <= 1
       /\ Drag(right_scroll[1], ThumbPos(right_scroll, volume_value))
            => Abs(volume_value' - volume_value) <= 1]_vars

\* (1 - (y - top)/height) * 100 rounded to the nearest whole number.
RoundedPercent(y, top, height) ==
    ((2 * (height - (y - top)) * 100) + height) \div (2 * height)

\* C4: for every y inside a band the drag handler stores
\* clamp(round((1 - (y - top)/height) * 100), 0, 100).
C4_DragRounds ==
    [][/\ (last'.op = "drag" /\ button1 # "up" /\ "left_scroll" \in last'.hit)
            => brightness_value' =
                 Max(0, Min(100, RoundedPercent(last'.at[2], left_scroll[2],
                                                left_scroll[4])))
       /\ (last'.op = "drag" /\ button1 # "up" /\ "right_scroll" \in last'.hit)
            => volume_value' =
                 Max(0, Min(100, RoundedPercent(last'.at[2], right_scroll[2],
                                                right_scroll[4])))]_vars


\* ------------------------------------------------------------------------
\* Properties of Spec
\* ------------------------------------------------------------------------
\* A step that is a drag: _on_canvas_drag has run while button 1 is held.
IsDrag == button1 # "up" /\ last'.op = "drag"

\* C3: a press at a point inside a scrollbar band sets brightness (left)
\* or volume (right) from y, exactly as a drag at that point does.
C3_PressSetsScroll ==
    [][IsPress =>
         LET x == last'.at[1]
             y == last'.at[2]
         IN  /\ InScrollBand(x, y, left_scroll)
                  => brightness_value' = DragValue(y, left_scroll)
             /\ (~InScrollBand(x, y, left_scroll)
                   /\ InScrollBand(x, y, right_scroll))
                  => volume_value' = DragValue(y, right_scroll)]_vars

\* The stored rectangle a branch of _on_canvas_click tests.
RegionOf(branch) ==
    CASE branch = "camera_button" -> camera_button_bounds
      [] branch = "done_button" -> alarm_done_button
      [] branch \in {"hour_up", "hour_down"} -> spinbox_left
      [] branch \in {"minute_up", "minute_down"} -> spinbox_right

\* The rectangle _draw_overlay stores for a branch on a w x h canvas.
PaintedRegion(branch, w, h) ==
    CASE branch = "camera_button" -> CameraButtonBounds(w, h)
      [] branch = "done_button" -> AlarmDoneButton(w, h)
      [] branch \in {"hour_up", "hour_down"} -> SpinboxLeft(w, h)
      [] branch \in {"minute_up", "minute_down"} -> SpinboxRight(w, h)

\* C7: a press that triggers a widget triggers one of the page whose
\* overlay is on screen, through a region computed for the canvas size of
\* the visible frame.
C7_SamePaintPass ==
    (last.op = "click" /\ last.hit # {}) =>
        /\ overlay_page = current_page
        /\ \A branch \in last.hit :
              RegionOf(branch) = PaintedRegion(branch, canvas[1], canvas[2])

\* C8: after show_page in the middle of a drag, every drag event of the
\* gesture that sets brightness or volume uses track bounds that a paint
\* of the new current page produced.
C8_NoStaleDrag ==
    (last.op = "drag" /\ last.hit # {} /\ button1 = "down_switched") =>
        overlay_page = current_page

\* (x, y) is outside the band of a track, or the track was never painted.
OutsideBand(x, y, scroll) ==
    \/ scroll = Unset
    \/ x <= scroll[1] - ScrollTolerance
    \/ x >= scroll[1] + ScrollTolerance
    \/ y < scroll[2]
    \/ y > scroll[3]

\* (x, y) is in neither half of the column of a spinbox, or the spinbox
\* was never painted.
OutsideColumn(x, y, box) ==
    \/ box = Unset
    \/ (~InRect(x, y, UpZone(box)) /\ ~InRect(x, y, DownZone(box)))

\* (x, y) is outside a button, or the button was never painted.
OutsideButton(x, y, bounds) ==
    \/ bounds = Unset
    \/ ~InRect(x, y, bounds)

\* (x, y) is in no button and in no spinbox zone of the current page.
OutsideButtons(x, y) ==
    /\ current_page = "camera" => OutsideButton(x, y, camera_button_bounds)
    /\ current_page = "alarm" =>
          /\ OutsideButton(x, y, alarm_done_button)
          /\ OutsideColumn(x, y, spinbox_left)
          /\ OutsideColumn(x, y, spinbox_right)

\* C9: a press at a point in no button and in no spinbox zone of the
\* current page (regions not painted yet included), and a drag at a point
\* outside the tolerance of both tracks or above or below their band,
\* change none of is_recording, brightness, volume, the alarm hour, the
\* alarm minute, alarm_set_time and current_page.
C9_NoMatchNoChange ==
    [][LET x == last'.at[1]
           y == last'.at[2]
       IN  /\ (IsPress /\ OutsideButtons(x, y))
                => UNCHANGED <<ui_state, current_page>>
           /\ (IsDrag /\ OutsideBand(x, y, left_scroll)
                      /\ OutsideBand(x, y, right_scroll))
                => UNCHANGED <<ui_state, current_page>>]_vars

\* On the alarm page, before its first paint, a press where the Done
\* button will be has changed nothing.
C9_Witness ==
    /\ last.op = "click"
    /\ last.hit = {}
    /\ last.at = TopMiddle(AlarmDoneButton(WideW, TallH))
    /\ button1 = "down"
    /\ current_page = "alarm"
    /\ alarm_done_button = Unset
    /\ alarm_set_time = None


\* ------------------------------------------------------------------------
\* SpecOverlap: pointer events where two regions overlap
\* ------------------------------------------------------------------------
\* The bottom right corner of the minute column as painted on the short
\* canvas.  The Done button of that paint covers it; both lie below the
\* short canvas and inside the tall window.
OverlapCorner ==
    <<SpinboxRight(WideW, ShortH)[3], SpinboxRight(WideW, ShortH)[4]>>

\* Presses at that corner and on the top edge of the Done button of the
\* tall canvas.
OverlapPresses ==
    {OverlapCorner, TopMiddle(AlarmDoneButton(WideW, TallH))}

\* Drags on the start-up canvas, whose tracks are 20 apart: inside both
\* bands, inside the volume band only, and above both.
OverlapDrags ==
    LET l == LeftScroll(MinCanvas, MinCanvas)
        r == RightScroll(MinCanvas, MinCanvas)
    IN  {<<l[1] + ScrollTolerance - 1, l[2]>>,
         <<r[1] + ScrollTolerance - 1, r[2]>>,
         <<l[1] + ScrollTolerance - 1, l[2] - 1>>}

InitOverlap == InitFrom({ClockHour}, {ClockMinute}, {FALSE})

NextOverlap ==
    \/ Mapped /\ ShowPage("alarm")
    \/ \E size \in {ShortSize, TallSize} : Resize(size)
    \/ UpdateVideo("no_read", "drawn")
    \/ \E p \in OverlapPresses : Click(p[1], p[2]) /\ SpinsNearClock
    \/ \E p \in OverlapDrags : Drag(p[1], p[2])
    \/ Release

SpecOverlap == InitOverlap /\ [][NextOverlap]_vars

\* The fields of ui_state a step changes, by their position in it.
ChangedFields == {f \in 1..Len(ui_state) : ui_state[f] # ui_state'[f]}

\* C10: every press and every drag changes at most one of is_recording,
\* alarm_set_time, the alarm hour, the alarm minute, brightness and
\* volume.  Where the Done button covers a spinbox zone the press sets
\* alarm_set_time and leaves the spinboxes; where the two bands overlap
\* the drag sets brightness and leaves volume.
C10_OneMutation ==
    [][(IsPress \/ IsDrag) =>
         LET x == last'.at[1]
             y == last'.at[2]
         IN  /\ Cardinality(ChangedFields) <= 1
             /\ (/\ IsPress
                 /\ current_page = "alarm"
                 /\ ~OutsideButton(x, y, alarm_done_button)
                 /\ (~OutsideColumn(x, y, spinbox_left)
                      \/ ~OutsideColumn(x, y, spinbox_right)))
                  => /\ alarm_set_time' = TwoDigitTime(alarm_left_value,
                                                       alarm_right_value)
                     /\ alarm_left_value' = alarm_left_value
                     /\ alarm_right_value' = alarm_right_value
             /\ (/\ IsDrag
                 /\ ~OutsideBand(x, y, left_scroll)
                 /\ ~OutsideBand(x, y, right_scroll))
                  => /\ brightness_value' = DragValue(y, left_scroll)
                     /\ volume_value' = volume_value]_vars

\* A press at the corner that the Done button and the down half of the
\* minute column share has set alarm_set_time and left the minute.
C10_Witness ==
    /\ last.op = "click"
    /\ last.hit = {"done_button"}
    /\ last.at = OverlapCorner
    /\ button1 = "down"
    /\ InRect(last.at[1], last.at[2], alarm_done_button)
    /\ InRect(last.at[1], last.at[2], DownZone(spinbox_right))
    /\ alarm_right_value = ClockMinute
    /\ alarm_set_time = TwoDigitTime(ClockHour, ClockMinute)

\* ------------------------------------------------------------------------
\* Further properties of Spec
\* ------------------------------------------------------------------------
\* C11: in every reachable state brightness and volume are whole numbers in
\* 0..100, whatever presses, drags, page switches and resizes came before,
\* drags at the top and at the bottom edge of a track included.
C11_ValuesInRange ==
    /\ brightness_value \in 0..ValueMax
    /\ volume_value \in 0..ValueMax

\* A drag at the bottom edge of the volume track has set volume to 0 after
\* a drag at the top edge of the brightness track set brightness to 100.
C11_Witness ==
    /\ last.op = "drag"
    /\ last.hit = {"right_scroll"}
    /\ last.at = <<right_scroll[1], right_scroll[3]>>
    /\ volume_value = 0
    /\ brightness_value = ValueMax

\* ------------------------------------------------------------------------
\* SpecLoop: the video loop with every outcome of the read and of the
\* display step
\* ------------------------------------------------------------------------
\* Every read outcome, with the tick that does not read.
TickOutcomes == ReadOutcomes \cup {"no_read"}

\* One run of _update_video, whatever the read and the display step do.
Tick == \E outcome \in TickOutcomes, render \in RenderOutcomes :
            UpdateVideo(outcome, render)

\* Presses in the middle of the camera button as painted for the tall
\* window.
LoopPoints == {Centre(CameraButtonBounds(WideW, TallH))}

InitLoop == InitFrom({ClockHour}, {ClockMinute}, BOOLEAN)

NextLoop ==
    \/ \E page_name \in Pages : Mapped /\ ShowPage(page_name)
    \/ Resize(TallSize)
    \/ Tick
    \/ \E p \in LoopPoints : Click(p[1], p[2])
    \/ Release

SpecLoop == InitLoop /\ [][NextLoop]_vars

\* The read of this tick gives no frame: recording is off, the camera is
\* absent, or the read fails, gives an empty frame or raises.
NoFrame(outcome) ==
    \/ ~is_recording
    \/ ~camera_available
    \/ cap # "open"
    \/ outcome \in FailedReads

\* C12: on every tick in which is_recording is false, or the camera is
\* absent, or the read fails, returns a frame of size 0 or raises, the
\* image the tick displays is the placeholder (a tick whose display step
\* raises before the label is updated displays none: the label keeps its
\* image), and the tick completes: it is the callback that ran last and the
\* next one is scheduled.
C12_PlaceholderFallback ==
    [][\A outcome \in TickOutcomes, render \in RenderOutcomes :
         (UpdateVideo(outcome, render) /\ NoFrame(outcome)) =>
            /\ ImageShown(outcome) = "placeholder"
            /\ render # "raise_image" => shown' = "placeholder"
            /\ render = "raise_image" => shown' = shown
            /\ last'.op = "tick"
            /\ video_timer' = "pending"]_vars

\* While recording with the camera handle open, a read has raised and the
\* tick has put the placeholder on the label.
C12_Witness ==
    /\ last.op = "tick"
    /\ last.hit = {"raise", "drawn"}
    /\ is_recording
    /\ cap = "open"
    /\ ~camera_available
    /\ shown = "placeholder"

\* ------------------------------------------------------------------------
\* SpecWebState: the routes that write the state map
\* ------------------------------------------------------------------------
\* A value above the range of brightness and volume.
OverMax == 150

\* The bodies of POST /api/state: every map from some of two known keys
\* and one unknown key to a value inside or above 0..100.
BodyKeys == {"brightness", "volume", "colour"}
BodyValues == {0, OverMax}
Bodies == UNION {[keys -> BodyValues] : keys \in SUBSET BodyKeys}

\* The bodies of POST /api/alarm/set.
AlarmBodies ==
    {[hour |-> 7, minute |-> 5], [minute |-> 5]}

InitWebState == InitFrom({ClockHour}, {ClockMinute}, {FALSE})

NextWebState ==
    \/ \E data \in Bodies : UpdateState(data)
    \/ UpdateStateNoJson
    \/ \E data \in AlarmBodies : SetAlarm(data)
    \/ \E second \in {0, SecondsPerMinute \div 2} : UpdateTemperature(second)

SpecWebState == InitWebState /\ [][NextWebState]_vars

\* The keys of the state map in app.py.
StateKeys ==
    {"current_page", "is_recording", "brightness", "volume", "alarm_hour",
     "alarm_minute", "alarm_set_time", "temperature"}

\* C13: after POST /api/state every key of the state map that is in the
\* body holds the value supplied, every other key holds what it held, the
\* keys of the body that are not in the state map are not added, and the
\* keys of the state map are always the same.
C13_MergeKnownKeys ==
    /\ DOMAIN state = StateKeys
    /\ [][/\ DOMAIN state' = StateKeys
          /\ \A data \in Bodies :
               UpdateState(data) =>
                  /\ \A key \in StateKeys \cap DOMAIN data :
                        state'[key] = data[key]
                  /\ \A key \in StateKeys \ DOMAIN data :
                        state'[key] = state[key]
                  /\ reply'["update_state"].state = state']_vars

\* A body with a known and an unknown key has been merged: brightness is
\* the value sent, volume is what it was, no key has been added.
C13_Witness ==
    /\ reply["update_state"].status = 200
    /\ reply["update_state"].request = [brightness |-> 0, colour |-> OverMax]
    /\ state.brightness = 0
    /\ state.volume = WebInitialValue
    /\ DOMAIN state = StateKeys
    /\ "colour" \notin DOMAIN state

\* C14: POST /api/state with a value above 100 for brightness or volume
\* replies 200 and stores the value as it was sent.
C14_NoClamping ==
    [][\A data \in Bodies :
         UpdateState(data) =>
            /\ reply'["update_state"].status = 200
            /\ \A key \in {"brightness", "volume"} \cap DOMAIN data :
                  data[key] > ValueMax => state'[key] = data[key]]_vars

\* {"brightness": 150} has been posted: the reply is 200 and brightness is
\* 150.
C14_Witness ==
    /\ reply["update_state"].status = 200
    /\ reply["update_state"].request = [brightness |-> OverMax]
    /\ reply["update_state"].state.brightness = OverMax
    /\ state.brightness = OverMax
    /\ state.brightness > ValueMax

\* ------------------------------------------------------------------------
\* SpecWebCam: toggle requests and streams on their own threads
\* ------------------------------------------------------------------------
InitWebCam == InitFrom({ClockHour}, {ClockMinute}, {FALSE})

NextWebCam ==
    \/ \E t \in Togglers :
          \/ ToggleEvaluate(t)
          \/ ToggleStore(t)
          \/ ToggleTest(t)
          \/ InitCheck(t)
          \/ \E outcome \in OpenOutcomes : InitOpen(t, outcome)
          \/ InitReadBegin(t)
          \/ \E outcome \in DeviceReads : InitReadEnd(t, outcome)
          \/ ToggleReply(t)
    \/ \E g \in Streams :
          \/ StreamAcquire(g)
          \/ StreamTest(g)
          \/ \E outcome \in DeviceReads : StreamReadEnd(g, outcome)

SpecWebCam == InitWebCam /\ [][NextWebCam]_vars

\* C15: at most one thread at a time is inside a read of the camera device,
\* the test read of init_camera included.
C15_OneReader == Cardinality(reading) <= 1

\* C16: every reply of a toggle request carries the value that request
\* wrote, at most one capture is ever made the camera, and when no toggle
\* request is in progress is_recording differs from its initial value
\* (false) exactly when the number of completed toggles is odd.
C16_ToggleContract ==
    /\ \A t \in Togglers :
          reply[t].status = 200 => reply[t].is_recording = reply[t].stored
    /\ Cardinality(kept) <= 1
    /\ (\A t \in Togglers : pc[t] = "idle") => state.is_recording = completed

\* ------------------------------------------------------------------------
\* SpecColumn: presses on the button column of a spinbox as it is painted
\* ------------------------------------------------------------------------
\* display_x2 = x2 - 60; btn_x1 = display_x2
PaintedColumnX1(box) == box[3] - PaintedColumnW

\* The up button as painted: create_rectangle(btn_x1, y1+2, x2-2,
\* up_btn_y2-1) with up_btn_y2 = y1 + (y2 - y1) // 2
PaintedUp(box) ==
    <<PaintedColumnX1(box), box[2] + 2,
      box[3] - 2, box[2] + HitButtonHeight(box) - 1>>

\* The down button as painted: create_rectangle(btn_x1, up_btn_y2+1, x2-2,
\* y2-2)
PaintedDown(box) ==
    <<PaintedColumnX1(box), box[2] + HitButtonHeight(box) + 1,
      box[3] - 2, box[4] - 2>>

\* The display area as painted: create_rectangle(x1+2, y1+2, display_x2-2,
\* y2-2)
PaintedDisplay(box) ==
    <<box[1] + 2, box[2] + 2, PaintedColumnX1(box) - 2, box[4] - 2>>

\* The point on the left edge of a rectangle, at half its height.
LeftMiddle(r) == <<r[1], (r[2] + r[4]) \div 2>>

\* Presses on the hour spinbox as painted for the tall window: the left
\* edge and the middle of the painted up and down buttons, and the middle
\* of the display area.
ColumnPoints ==
    LET l == SpinboxLeft(WideW, TallH)
    IN  {LeftMiddle(PaintedUp(l)), Centre(PaintedUp(l)),
         LeftMiddle(PaintedDown(l)), Centre(PaintedDown(l)),
         Centre(PaintedDisplay(l))}

InitColumn == InitFrom({ClockHour}, {ClockMinute}, {FALSE})

NextColumn ==
    \/ Mapped /\ ShowPage("alarm")
    \/ Resize(TallSize)
    \/ UpdateVideo("no_read", "drawn")
    \/ \E p \in ColumnPoints : Click(p[1], p[2])
    \/ Release

SpecColumn == InitColumn /\ [][NextColumn]_vars

\* The alarm page is shown and the items on the canvas are those of the
\* alarm page, painted from the stored spinbox rectangles.
AlarmPainted ==
    /\ current_page = "alarm"
    /\ overlay_page = "alarm"
    /\ spinbox_left # Unset

\* The pointer position of the press this step makes is within r.
PressWithin(r) ==
    /\ IsPress
    /\ r[1] <= last'.at[1] /\ last'.at[1] <= r[3]
    /\ r[2] <= last'.at[2] /\ last'.at[2] <= r[4]

\* C17: with the alarm page painted, a press within the hour spinbox's up
\* button as painted adds one to the hour modulo 24, a press within its
\* down button as painted takes one off modulo 24, and a press within its
\* display area changes neither value.
C17_PaintAndHitAgree ==
    [][AlarmPainted =>
          /\ PressWithin(PaintedUp(spinbox_left)) =>
                alarm_left_value' = SpinUp(alarm_left_value, HoursPerDay)
          /\ PressWithin(PaintedDown(spinbox_left)) =>
                alarm_left_value' = SpinDown(alarm_left_value, HoursPerDay)
          /\ PressWithin(PaintedDisplay(spinbox_left)) =>
                /\ alarm_left_value' = alarm_left_value
                /\ alarm_right_value' = alarm_right_value]_vars

\* C18: a tick that reads the camera while recording and whose read fails,
\* gives an empty frame or raises leaves camera_available false; no step
\* takes camera_available from false to true; and every tick that starts
\* with camera_available false reads nothing and hands the placeholder to
\* the display step, also while is_recording is true (the label has it
\* unless the display step raises before the label is updated).
C18_NoRetry ==
    [][/\ \A outcome \in TickOutcomes, render \in RenderOutcomes :
             UpdateVideo(outcome, render) =>
                /\ (ReadsCamera /\ outcome \in FailedReads)
                      => ~camera_available'
                /\ ~camera_available =>
                      /\ outcome = "no_read"
                      /\ ImageShown(outcome) = "placeholder"
                      /\ render # "raise_image" => shown' = "placeholder"
       /\ ~camera_available => ~camera_available']_vars

\* After a failed read, with the camera handle still open and recording on,
\* a tick has run without reading and has put the placeholder on the label.
C18_Witness ==
    /\ last.op = "tick"
    /\ last.hit = {"no_read", "drawn"}
    /\ is_recording
    /\ cap = "open"
    /\ ~camera_available
    /\ shown = "placeholder"

\* ------------------------------------------------------------------------
\* SpecLoopFair: the video loop under Tk's event loop
\* ------------------------------------------------------------------------
\* mainloop() runs a timer callback once its 33 ms are over, whatever other
\* events arrive: a pending _update_video is not put off for ever.
SpecLoopFair == SpecLoop /\ WF_vars(Tick)

\* C19: the next _update_video is pending in every state; every tick leaves
\* it pending, a tick whose display step raises in _letterbox, in the image
\* update or in _draw_overlay included; and after every tick another tick
\* runs.
C19_LoopNeverStops ==
    /\ [](video_timer = "pending")
    /\ [][\A outcome \in TickOutcomes, render \in RenderOutcomes :
             UpdateVideo(outcome, render) => video_timer' = "pending"]_vars
    /\ \A n \in 0..(FrameModulus - 1) : (frames = n) ~> (frames # n)

\* A tick whose _draw_overlay raised has run and the next tick is pending.
C19_Witness ==
    /\ last.op = "tick"
    /\ "raise_overlay" \in last.hit
    /\ video_timer = "pending"

\* ------------------------------------------------------------------------
\* The action buttons and the canvas
\* ------------------------------------------------------------------------
\* Rectangle r lies within a canvas of the given size: 0..w by 0..h.
WithinCanvas(r, size) ==
    /\ 0 <= r[1] /\ r[3] <= size[1]
    /\ 0 <= r[2] /\ r[4] <= size[2]

\* C20: once the window is mapped and the overlay has been painted for its
\* size, the camera button (camera page painted) and the Done button (alarm
\* page painted) lie within the canvas.
C20_ButtonsWithinCanvas ==
    (Mapped /\ canvas = win) =>
        /\ overlay_page = "camera" =>
              WithinCanvas(camera_button_bounds, canvas)
        /\ overlay_page = "alarm" =>
              WithinCanvas(alarm_done_button, canvas)

=============================================================================
